---- MODULE Spec2Model ----
(***************************************************************************)
(* PairRanker: the binary-insertion ranking engine                         *)
(* (src/utils/rankingAlgorithm.ts) and the application reducer that        *)
(* threads a ranking session through the lists (src/context/AppContext.tsx)*)
(*                                                                         *)
(* Item and list identifiers are the naturals 1..MaxIds; an item is        *)
(* represented by its id (the engine and the reducer never read its text). *)
(* Sequences are 1-based here and 0-based in the source: the bounds low,   *)
(* high and mid keep their 0-based source values and are shifted by one    *)
(* where a sequence is indexed.                                            *)
(*                                                                         *)
(* Of AppState and List the model keeps what the ranking flow reads or     *)
(* writes: lists (id, items, status, rankedData, unrankedItems),           *)
(* currentListId, rankingState and currentView.  The navigation tab        *)
(* (currentTab, SET_TAB), list names (UPDATE_LIST_NAME), item texts and    *)
(* createdAt are left out: no transition reads them.                       *)
(*                                                                         *)
(* A run is one of three kinds (driver): a session driven through the      *)
(* engine, the application reducer receiving actions, or a single engine   *)
(* function called on a state built by hand, as the engine's tests do.     *)
(* The application starts from createInitialState or from a state saved    *)
(* by an earlier run (SpecRestored).                                       *)
(***************************************************************************)
EXTENDS Integers, Sequences, FiniteSets, TLC

\* ------------------------------------------------------------------ bounds
\* Number of distinct item identifiers a directly driven session may be
\* given (existing order plus new items together).
MaxIds == 5

\* Number of identifiers generateId hands out in one run of the application.
MaxGen == 4

\* Number of lists the application holds at one time.
MaxLists == 2

\* Length a list's items may reach (START_PARTIAL_RANKING appends the
\* unranked items each time it is dispatched).
MaxListLen == 4

\* Number of items a shared list carries.
MaxShared == 2

\* Length of the sorted list, and of the pending list, of a state built by
\* hand and passed to an engine function directly.
MaxProbeLen == 5

MaxProbePending == 2

\* Largest totalItems passed to getRankingProgress directly.
MaxTotal == 8

Ids == 1..MaxIds

\* ----------------------------------------------------------------- helpers
\* The value `null` of the source (RankingState | null).
Null == [null |-> TRUE]

Range(s) == {s[i] : i \in 1..Len(s)}

IsInjective(s) == \A i, j \in 1..Len(s) : s[i] = s[j] => i = j

\* Duplicate-free sequences over S of length at most n.
InjSeqs(S, n) == UNION {{s \in [1..k -> S] : IsInjective(s)} : k \in 0..n}

Min(a, b) == IF a < b THEN a ELSE b

Max(a, b) == IF a > b THEN a ELSE b

\* Array.prototype.slice(start) for start >= 0.
Slice(s, start) == SubSeq(s, start + 1, Len(s))

\* Array.prototype.splice(start, 0, x) on a copy: x is inserted before the
\* element at 0-based index start; start is clamped as splice clamps it.
Splice(s, start, x) ==
  LET at == IF start < 0 THEN Max(Len(s) + start, 0) ELSE Min(start, Len(s))
  IN  SubSeq(s, 1, at) \o <<x>> \o SubSeq(s, at + 1, Len(s))

\* ------------------------------------------------------------------ engine
\* Mutant: the guard admits a single item (items.length < 1); the candidate
\* of a one-item list reads `undefined`, represented by 0.
initializeRankingState_AdmitsOne(its) ==
  IF Len(its) < 1
  THEN Null
  ELSE [ sortedListItemIds  |-> <<its[1]>>,
         pendingItemIds     |-> Slice(its, 1),
         currentCandidateId |-> IF Len(its) >= 2 THEN its[2] ELSE 0,
         low                |-> 0,
         high               |-> 0,
         mode               |-> "full" ]

initializeRankingState(its) ==
  IF Len(its) < 2
  THEN Null
  ELSE [ sortedListItemIds  |-> <<its[1]>>,
         pendingItemIds     |-> Slice(its, 1),
         currentCandidateId |-> its[2],
         low                |-> 0,
         high               |-> 0,
         mode               |-> "full" ]

\* Mutant: the upper bound is the length of the existing order, one past
\* its last index.
initializePartialRankingState_HighPastEnd(existing, newIts) ==
  IF Len(newIts) = 0
  THEN Null
  ELSE IF Len(existing) = 0
  THEN initializeRankingState(newIts)
  ELSE [ sortedListItemIds  |-> existing,
         pendingItemIds     |-> Slice(newIts, 1),
         currentCandidateId |-> newIts[1],
         low                |-> 0,
         high               |-> Len(existing),
         mode               |-> "partial" ]

\* Mutant: an empty existing order is not handed to initializeRankingState;
\* a partial session over an empty sorted list is built instead.
initializePartialRankingState_NoDelegation(existing, newIts) ==
  IF Len(newIts) = 0
  THEN Null
  ELSE [ sortedListItemIds  |-> existing,
         pendingItemIds     |-> Slice(newIts, 1),
         currentCandidateId |-> newIts[1],
         low                |-> 0,
         high               |-> Len(existing) - 1,
         mode               |-> "partial" ]

initializePartialRankingState(existing, newIts) ==
  IF Len(newIts) = 0
  THEN Null
  ELSE IF Len(existing) = 0
  THEN initializeRankingState(newIts)
  ELSE [ sortedListItemIds  |-> existing,
         pendingItemIds     |-> Slice(newIts, 1),
         currentCandidateId |-> newIts[1],
         low                |-> 0,
         high               |-> Len(existing) - 1,
         mode               |-> "partial" ]

Mid(st) == (st.low + st.high) \div 2

\* Mutant: a preferred reference leaves the lower bound at mid.
NewLow_StaysAtMid(st, chooseCandidate) ==
  IF chooseCandidate THEN st.low ELSE Mid(st)

\* Mutant: a preferred reference raises the lower bound by one only (a
\* linear scan of the window).
NewLow_StepsByOne(st, chooseCandidate) ==
  IF chooseCandidate THEN st.low ELSE st.low + 1

NewLow(st, chooseCandidate) == IF chooseCandidate THEN st.low ELSE Mid(st) + 1

\* Mutant: a preferred candidate lowers the upper bound to mid - 2.
NewHigh_SkipsOne(st, chooseCandidate) ==
  IF chooseCandidate THEN Mid(st) - 2 ELSE st.high

NewHigh(st, chooseCandidate) == IF chooseCandidate THEN Mid(st) - 1 ELSE st.high

\* Mutant: splice(newLow, 1, candidate) overwrites the element at newLow
\* instead of inserting before it.
NewSortedList_Overwrites(st, chooseCandidate) ==
  LET at == Min(NewLow(st, chooseCandidate), Len(st.sortedListItemIds))
  IN  SubSeq(st.sortedListItemIds, 1, at) \o <<st.currentCandidateId>>
        \o SubSeq(st.sortedListItemIds, at + 2, Len(st.sortedListItemIds))

\* The copy of the sorted list with the candidate spliced in at newLow.
NewSortedList(st, chooseCandidate) ==
  Splice(st.sortedListItemIds, NewLow(st, chooseCandidate), st.currentCandidateId)

\* Mutant: the window of the next candidate ends at the length of the new
\* sorted list, one past its last index.
processComparison_HighIsLength(st, chooseCandidate) ==
  LET newLow  == NewLow(st, chooseCandidate)
      newHigh == NewHigh(st, chooseCandidate)
      newSortedList   == NewSortedList(st, chooseCandidate)
      newPendingItems == Slice(st.pendingItemIds, 1)
  IN  IF newLow > newHigh
      THEN IF Len(newPendingItems) = 0
           THEN Null
           ELSE [ sortedListItemIds  |-> newSortedList,
                  pendingItemIds     |-> newPendingItems,
                  currentCandidateId |-> st.pendingItemIds[1],
                  low                |-> 0,
                  high               |-> Len(newSortedList),
                  mode               |-> st.mode ]
      ELSE [ sortedListItemIds  |-> st.sortedListItemIds,
             pendingItemIds     |-> st.pendingItemIds,
             currentCandidateId |-> st.currentCandidateId,
             low                |-> newLow,
             high               |-> newHigh,
             mode               |-> st.mode ]

processComparison(st, chooseCandidate) ==
  LET newLow  == NewLow(st, chooseCandidate)
      newHigh == NewHigh(st, chooseCandidate)
      newSortedList   == NewSortedList(st, chooseCandidate)
      newPendingItems == Slice(st.pendingItemIds, 1)
  IN  IF newLow > newHigh
      THEN IF Len(newPendingItems) = 0
           THEN Null
           ELSE [ sortedListItemIds  |-> newSortedList,
                  pendingItemIds     |-> newPendingItems,
                  currentCandidateId |-> st.pendingItemIds[1],
                  low                |-> 0,
                  high               |-> Len(newSortedList) - 1,
                  mode               |-> st.mode ]
      ELSE [ sortedListItemIds  |-> st.sortedListItemIds,
             pendingItemIds     |-> st.pendingItemIds,
             currentCandidateId |-> st.currentCandidateId,
             low                |-> newLow,
             high               |-> newHigh,
             mode               |-> st.mode ]

\* Mutant: the reference is read at low instead of mid.
getCurrentComparison_ReadsLow(st) ==
  [ candidateId |-> st.currentCandidateId,
    referenceId |-> IF st.low + 1 \in 1..Len(st.sortedListItemIds)
                    THEN st.sortedListItemIds[st.low + 1]
                    ELSE 0 ]

\* referenceId is sortedListItemIds[mid]; an index outside the array reads
\* `undefined`, represented by 0 (no item has id 0).
getCurrentComparison(st) ==
  LET mid == Mid(st)
  IN  [ candidateId |-> st.currentCandidateId,
        referenceId |-> IF mid + 1 \in 1..Len(st.sortedListItemIds)
                        THEN st.sortedListItemIds[mid + 1]
                        ELSE 0 ]

\* Math.round(num / den) for num >= 0 and den > 0: the nearest integer, a
\* half rounded up.  Within the bounds used here every quotient that ends
\* in .5 has a denominator of 8 and is exact in binary floating point, so
\* the integer computation agrees with the floating-point one.
MathRound(num, den) == (2 * num + den) \div (2 * den)

\* Mutant: the percentage is truncated (Math.floor) instead of rounded.
getRankingProgress_Truncates(st, totalItems) ==
  LET processedItems == Len(st.sortedListItemIds) + 1
  IN  [ currentItemIndex |-> processedItems,
        totalItems       |-> totalItems,
        percentComplete  |-> (processedItems * 100) \div totalItems ]

getRankingProgress(st, totalItems) ==
  LET processedItems == Len(st.sortedListItemIds) + 1
  IN  [ currentItemIndex |-> processedItems,
        totalItems       |-> totalItems,
        percentComplete  |-> MathRound(processedItems * 100, totalItems) ]

\* ------------------------------------------------------------------- state
VARIABLES
  driver,       \* what drives the run: "engine" (direct calls) or "reducer"
  entry,        \* initializer the caller uses: "full" or "partial"
  argExisting,  \* existingRankedIds handed to initializePartialRankingState
  argItems,     \* items / newItems handed to the initializer
  pc,           \* "start", "insufficient", "active" or "complete"
  session,      \* the RankingState the caller holds, or Null
  finalOrder,   \* the order the caller reads when the session completes
  log,          \* the comparisons answered so far
  lists,          \* AppState.lists
  currentListId,  \* AppState.currentListId
  rankingState,   \* AppState.rankingState
  currentView,    \* AppState.currentView
  nextId,         \* the next identifier generateId returns
  probeState,     \* a RankingState built by hand (or null) for a direct call
  probeResult     \* the outcome of the direct call on probeState

engineVars == <<entry, argExisting, argItems, pc, session, finalOrder, log>>

appVars == <<lists, currentListId, rankingState, currentView, nextId>>

probeVars == <<probeState, probeResult>>

vars == <<driver, engineVars, appVars, probeVars>>

\* A list without rankedData / unrankedItems holds Null in that field; an
\* unrankedItems array that is present is held as Present(array).
NewList(id) ==
  [ id |-> id, items |-> <<>>, status |-> "unranked",
    rankedData |-> Null, unrankedItems |-> Null ]

\* createInitialState, with currentListId set by AppProvider.
InitApp ==
  /\ lists = <<NewList(1)>>
  /\ currentListId = 1
  /\ rankingState = Null
  /\ currentView = "currentList"
  /\ nextId = 2

\* A caller hands every initializer duplicate-free identifiers, the new
\* items disjoint from the existing order.
InitEngine ==
  /\ entry \in {"full", "partial"}
  /\ argExisting \in IF entry = "full" THEN {<<>>} ELSE InjSeqs(Ids, MaxIds)
  /\ argItems \in {s \in InjSeqs(Ids, MaxIds - Len(argExisting)) :
                     Range(s) \cap Range(argExisting) = {}}
  /\ pc = "start"
  /\ session = Null
  /\ finalOrder = <<>>
  /\ log = <<>>

\* createState of the engine's tests: a sorted list 1..n, the candidate
\* n + 1 and k pending ids after it, with the bounds given.
createState(n, k, low, high, mode) ==
  [ sortedListItemIds  |-> [i \in 1..n |-> i],
    pendingItemIds     |-> [i \in 1..k |-> n + 1 + i],
    currentCandidateId |-> n + 1,
    low                |-> low,
    high               |-> high,
    mode               |-> mode ]

\* The states handed to a direct call: any window over the sorted list,
\* empty windows (low > high) included, or no state at all.
ProbeStates ==
  UNION { { createState(n, k, low, high, mode) :
              k \in 0..MaxProbePending, low \in 0..n, high \in -1..(n - 1),
              mode \in {"full", "partial"} } : n \in 1..MaxProbeLen }

\* No direct call has been made.
NoCall == [call |-> "none"]

InitProbe ==
  /\ probeState \in IF driver = "probe" THEN ProbeStates \cup {Null} ELSE {Null}
  /\ probeResult = NoCall

\* Either a session is driven through the engine (as its unit tests do),
\* or the application runs, or one engine function is called on a state
\* built by hand; what is not driven stays in its initial state.
Init ==
  /\ driver \in {"engine", "reducer", "probe"}
  /\ InitApp
  /\ InitEngine
  /\ InitProbe
  /\ driver # "engine" => entry = "full" /\ argItems = <<>>

\* ------------------------------------------------------ direct engine calls
CallInitializeRankingState ==
  /\ driver = "engine"
  /\ pc = "start"
  /\ entry = "full"
  /\ session' = initializeRankingState(argItems)
  /\ pc' = IF session' = Null THEN "insufficient" ELSE "active"
  /\ UNCHANGED <<driver, entry, argExisting, argItems, finalOrder, log, appVars, probeVars>>

CallInitializePartialRankingState ==
  /\ driver = "engine"
  /\ pc = "start"
  /\ entry = "partial"
  /\ session' = initializePartialRankingState(argExisting, argItems)
  /\ pc' = IF session' = Null THEN "insufficient" ELSE "active"
  /\ UNCHANGED <<driver, entry, argExisting, argItems, finalOrder, log, appVars, probeVars>>

\* Mutant: the answer applied to the session need not be the answer given
\* (the engine is not a function of the answers).
CallProcessComparison_AnyAnswer(chooseCandidate) ==
  /\ driver = "engine"
  /\ pc = "active"
  /\ \E applied \in BOOLEAN :
       LET cmp == getCurrentComparison(session)
           res == processComparison(session, applied)
       IN  /\ log' = Append(log, [ candidateId     |-> cmp.candidateId,
                                   referenceId     |-> cmp.referenceId,
                                   chooseCandidate |-> chooseCandidate ])
           /\ IF res = Null
              THEN /\ pc' = "complete"
                   /\ finalOrder' = session.sortedListItemIds
                   /\ session' = Null
              ELSE /\ pc' = "active"
                   /\ session' = res
                   /\ UNCHANGED finalOrder
  /\ UNCHANGED <<driver, entry, argExisting, argItems, appVars, probeVars>>

\* One answered comparison. When processComparison returns null the caller
\* takes the final order from the state it passed in.
CallProcessComparison(chooseCandidate) ==
  /\ driver = "engine"
  /\ pc = "active"
  /\ LET cmp == getCurrentComparison(session)
         res == processComparison(session, chooseCandidate)
     IN  /\ log' = Append(log, [ candidateId     |-> cmp.candidateId,
                                 referenceId     |-> cmp.referenceId,
                                 chooseCandidate |-> chooseCandidate ])
         /\ IF res = Null
            THEN /\ pc' = "complete"
                 /\ finalOrder' = session.sortedListItemIds
                 /\ session' = Null
            ELSE /\ pc' = "active"
                 /\ session' = res
                 /\ UNCHANGED finalOrder
  /\ UNCHANGED <<driver, entry, argExisting, argItems, appVars, probeVars>>

NextEngine ==
  \/ CallInitializeRankingState
  \/ CallInitializePartialRankingState
  \/ \E chooseCandidate \in BOOLEAN : CallProcessComparison(chooseCandidate)

\* ----------------------------------------------------------------- reducer
\* Every reducer action is one dispatch; the application dispatches nothing
\* while the engine is driven directly.
ListIds == {lists[i].id : i \in 1..Len(lists)}

\* The listId an action may carry: the id of a list, or 0 for an id that
\* names no list (every such id is treated alike).
ActionListIds == ListIds \cup {0}

HasList(listId) == listId \in ListIds

\* state.lists.find((l) => l.id === listId)
FindList(listId) == lists[CHOOSE i \in 1..Len(lists) : lists[i].id = listId]

\* The itemId an action addressed to listId may carry: the id of an item or
\* unranked item of that list, or 0 for an id the list does not hold (every
\* such id is filtered alike).
ActionItemIds(listId) ==
  IF HasList(listId)
  THEN Range(FindList(listId).items)
         \cup (IF FindList(listId).unrankedItems = Null THEN {}
               ELSE Range(FindList(listId).unrankedItems.items))
         \cup {0}
  ELSE {0}

\* state.lists.map((l) => l.id === listId ? updated : l), where updated is
\* built from the list with that id (list ids are unique).
MapList(listId, updated) ==
  [i \in 1..Len(lists) |-> IF lists[i].id = listId THEN updated ELSE lists[i]]

\* An unrankedItems array that is present (it may be empty).
Present(its) == [items |-> its]

\* list.unrankedItems || []
UnrankedOrEmpty(l) == IF l.unrankedItems = Null THEN <<>> ELSE l.unrankedItems.items

Without(s, removed) == SelectSeq(s, LAMBDA x : x \notin removed)

SET_VIEW(view) ==
  /\ driver = "reducer"
  /\ currentView' = view
  /\ UNCHANGED <<driver, probeVars, engineVars, lists, currentListId, rankingState, nextId>>

CREATE_LIST ==
  /\ driver = "reducer"
  /\ nextId <= MaxGen
  /\ Len(lists) < MaxLists
  /\ lists' = Append(lists, NewList(nextId))
  /\ currentListId' = nextId
  /\ currentView' = "currentList"
  /\ nextId' = nextId + 1
  /\ UNCHANGED <<driver, probeVars, engineVars, rankingState>>

SET_CURRENT_LIST(listId) ==
  /\ driver = "reducer"
  /\ IF ~HasList(listId)
     THEN UNCHANGED appVars
     ELSE /\ currentListId' = listId
          /\ currentView' = IF FindList(listId).status = "ranked"
                            THEN "rankedResult" ELSE "currentList"
          /\ rankingState' = Null
          /\ UNCHANGED <<lists, nextId>>
  /\ UNCHANGED <<driver, probeVars, engineVars>>

\* blank: the trimmed text is empty.
ADD_ITEM(listId, blank) ==
  /\ driver = "reducer"
  /\ IF blank \/ ~HasList(listId)
     THEN UNCHANGED appVars
     ELSE /\ nextId <= MaxGen
          /\ lists' = MapList(listId,
                        [FindList(listId) EXCEPT
                           !.items = Append(FindList(listId).items, nextId)])
          /\ nextId' = nextId + 1
          /\ UNCHANGED <<currentListId, rankingState, currentView>>
  /\ UNCHANGED <<driver, probeVars, engineVars>>

DELETE_ITEM(listId, itemId) ==
  /\ driver = "reducer"
  /\ lists' = MapList(listId,
                [FindList(listId) EXCEPT
                   !.items = Without(FindList(listId).items, {itemId})])
  /\ UNCHANGED <<driver, probeVars, engineVars, currentListId, rankingState,
                 currentView, nextId>>

ADD_ITEM_TO_RANKED_LIST(listId, blank) ==
  /\ driver = "reducer"
  /\ IF blank \/ ~HasList(listId) \/ FindList(listId).status # "ranked"
     THEN UNCHANGED appVars
     ELSE /\ nextId <= MaxGen
          /\ lists' = MapList(listId,
                        [FindList(listId) EXCEPT
                           !.unrankedItems =
                              Present(Append(UnrankedOrEmpty(FindList(listId)), nextId))])
          /\ nextId' = nextId + 1
          /\ UNCHANGED <<currentListId, rankingState, currentView>>
  /\ UNCHANGED <<driver, probeVars, engineVars>>

DELETE_UNRANKED_ITEM(listId, itemId) ==
  /\ driver = "reducer"
  /\ lists' = MapList(listId,
                [FindList(listId) EXCEPT
                   !.unrankedItems =
                      Present(Without(UnrankedOrEmpty(FindList(listId)), {itemId}))])
  /\ UNCHANGED <<driver, probeVars, engineVars, currentListId, rankingState,
                 currentView, nextId>>

\* allItems of START_RANKING: the items followed by the unranked items.
AllItems(l) == l.items \o UnrankedOrEmpty(l)

\* Mutant: a re-ranking keeps the previous rankedData.
START_RANKING_KeepsRankedData(listId) ==
  /\ driver = "reducer"
  /\ IF ~HasList(listId)
     THEN UNCHANGED appVars
     ELSE LET allItems == AllItems(FindList(listId))
              rs       == initializeRankingState(allItems)
          IN  IF Len(allItems) < 2 \/ rs = Null
              THEN UNCHANGED appVars
              ELSE /\ lists' = MapList(listId,
                                 [FindList(listId) EXCEPT !.items = allItems,
                                                          !.status = "ranking",
                                                          !.unrankedItems = Null])
                   /\ rankingState' = rs
                   /\ currentView' = "ranking"
                   /\ UNCHANGED <<currentListId, nextId>>
  /\ UNCHANGED <<driver, probeVars, engineVars>>

START_RANKING(listId) ==
  /\ driver = "reducer"
  /\ IF ~HasList(listId)
     THEN UNCHANGED appVars
     ELSE LET allItems == AllItems(FindList(listId))
              rs       == initializeRankingState(allItems)
          IN  IF Len(allItems) < 2 \/ rs = Null
              THEN UNCHANGED appVars
              ELSE /\ lists' = MapList(listId,
                                 [FindList(listId) EXCEPT !.items = allItems,
                                                          !.status = "ranking",
                                                          !.unrankedItems = Null,
                                                          !.rankedData = Null])
                   /\ rankingState' = rs
                   /\ currentView' = "ranking"
                   /\ UNCHANGED <<currentListId, nextId>>
  /\ UNCHANGED <<driver, probeVars, engineVars>>

\* The guard of START_PARTIAL_RANKING that returns the state unchanged.
PartialRankingRefused(listId) ==
  \/ ~HasList(listId)
  \/ FindList(listId).rankedData = Null
  \/ FindList(listId).unrankedItems = Null
  \/ Len(FindList(listId).unrankedItems.items) = 0

\* Mutant: the session is started on the list's items instead of the
\* ranked order.
START_PARTIAL_RANKING_FromItems(listId) ==
  /\ driver = "reducer"
  /\ IF PartialRankingRefused(listId)
     THEN UNCHANGED appVars
     ELSE LET list == FindList(listId)
              rs   == initializePartialRankingState(list.items,
                                                    list.unrankedItems.items)
          IN  IF rs = Null
              THEN UNCHANGED appVars
              ELSE /\ Len(list.items) + Len(list.unrankedItems.items) <= MaxListLen
                   /\ lists' = MapList(listId,
                                 [list EXCEPT !.status = "ranking",
                                              !.items = list.items \o UnrankedOrEmpty(list)])
                   /\ rankingState' = rs
                   /\ currentView' = "ranking"
                   /\ UNCHANGED <<currentListId, nextId>>
  /\ UNCHANGED <<driver, probeVars, engineVars>>

START_PARTIAL_RANKING(listId) ==
  /\ driver = "reducer"
  /\ IF PartialRankingRefused(listId)
     THEN UNCHANGED appVars
     ELSE LET list == FindList(listId)
              rs   == initializePartialRankingState(list.rankedData.itemIdsInOrder,
                                                    list.unrankedItems.items)
          IN  IF rs = Null
              THEN UNCHANGED appVars
              ELSE /\ Len(list.items) + Len(list.unrankedItems.items) <= MaxListLen
                   /\ lists' = MapList(listId,
                                 [list EXCEPT !.status = "ranking",
                                              !.items = list.items \o UnrankedOrEmpty(list)])
                   /\ rankingState' = rs
                   /\ currentView' = "ranking"
                   /\ UNCHANGED <<currentListId, nextId>>
  /\ UNCHANGED <<driver, probeVars, engineVars>>

\* The order MAKE_COMPARISON stores when processComparison returns null.
FinalOrder(rs) == rs.sortedListItemIds

\* Mutant: a completing comparison leaves the unranked items of the list in
\* place.
MAKE_COMPARISON_KeepsUnranked(chooseCandidate) ==
  /\ driver = "reducer"
  /\ IF rankingState = Null
     THEN UNCHANGED appVars
     ELSE LET newRankingState == processComparison(rankingState, chooseCandidate)
          IN  IF newRankingState = Null
              THEN /\ lists' = MapList(currentListId,
                                 [FindList(currentListId) EXCEPT
                                    !.status = "ranked",
                                    !.rankedData = [itemIdsInOrder |-> FinalOrder(rankingState)]])
                   /\ rankingState' = Null
                   /\ currentView' = "rankedResult"
                   /\ UNCHANGED <<currentListId, nextId>>
              ELSE /\ rankingState' = newRankingState
                   /\ UNCHANGED <<lists, currentListId, currentView, nextId>>
  /\ UNCHANGED <<driver, probeVars, engineVars>>

MAKE_COMPARISON(chooseCandidate) ==
  /\ driver = "reducer"
  /\ IF rankingState = Null
     THEN UNCHANGED appVars
     ELSE LET newRankingState == processComparison(rankingState, chooseCandidate)
          IN  IF newRankingState = Null
              THEN /\ lists' = MapList(currentListId,
                                 [FindList(currentListId) EXCEPT
                                    !.status = "ranked",
                                    !.rankedData = [itemIdsInOrder |-> FinalOrder(rankingState)],
                                    !.unrankedItems = Null])
                   /\ rankingState' = Null
                   /\ currentView' = "rankedResult"
                   /\ UNCHANGED <<currentListId, nextId>>
              ELSE /\ rankingState' = newRankingState
                   /\ UNCHANGED <<lists, currentListId, currentView, nextId>>
  /\ UNCHANGED <<driver, probeVars, engineVars>>

COMPLETE_RANKING ==
  /\ driver = "reducer"
  /\ LET isPartialMode == rankingState # Null /\ rankingState.mode = "partial"
         sortedListItemIds == IF rankingState = Null THEN <<>>
                              ELSE rankingState.sortedListItemIds
         itemsToRemove == IF rankingState = Null THEN {}
                          ELSE Range(rankingState.pendingItemIds)
                                 \cup {rankingState.currentCandidateId}
     IN  /\ lists' = [i \in 1..Len(lists) |->
                        IF lists[i].id # currentListId \/ lists[i].status # "ranking"
                        THEN lists[i]
                        ELSE IF isPartialMode
                        THEN [lists[i] EXCEPT
                                !.status = "ranked",
                                !.rankedData = [itemIdsInOrder |-> sortedListItemIds],
                                !.items = Without(lists[i].items, itemsToRemove),
                                !.unrankedItems = Null]
                        ELSE [lists[i] EXCEPT !.status = "unranked",
                                              !.unrankedItems = Null]]
         /\ rankingState' = Null
         /\ currentView' = IF isPartialMode THEN "rankedResult" ELSE "currentList"
  /\ UNCHANGED <<driver, probeVars, engineVars, currentListId, nextId>>

\* Mutant: deleting the current list leaves currentListId as it was.
DELETE_LIST_KeepsCurrent(listId) ==
  /\ driver = "reducer"
  /\ LET listsAfterDelete == SelectSeq(lists, LAMBDA l : l.id # listId)
     IN  IF Len(listsAfterDelete) = 0
         THEN /\ nextId <= MaxGen
              /\ lists' = <<NewList(nextId)>>
              /\ currentListId' = nextId
              /\ nextId' = nextId + 1
              /\ rankingState' = Null
              /\ UNCHANGED <<currentView>>
         ELSE /\ lists' = listsAfterDelete
              /\ rankingState' = Null
              /\ UNCHANGED <<currentListId, currentView, nextId>>
  /\ UNCHANGED <<driver, probeVars, engineVars>>

DELETE_LIST(listId) ==
  /\ driver = "reducer"
  /\ LET listsAfterDelete == SelectSeq(lists, LAMBDA l : l.id # listId)
     IN  IF Len(listsAfterDelete) = 0
         THEN /\ nextId <= MaxGen
              /\ lists' = <<NewList(nextId)>>
              /\ currentListId' = nextId
              /\ nextId' = nextId + 1
              /\ rankingState' = Null
              /\ UNCHANGED <<currentView>>
         ELSE /\ lists' = listsAfterDelete
              /\ currentListId' = IF currentListId = listId
                                  THEN listsAfterDelete[1].id ELSE currentListId
              /\ rankingState' = Null
              /\ UNCHANGED <<currentView, nextId>>
  /\ UNCHANGED <<driver, probeVars, engineVars>>

\* createListFromPayload: n items with generated ids, ranked in payload
\* order when the payload is of type 'ranked'.
createListFromPayload(n, type) ==
  LET items == [k \in 1..n |-> nextId + k - 1]
  IN  [ id |-> nextId + n, items |-> items, status |-> type,
        rankedData |-> IF type = "ranked" THEN [itemIdsInOrder |-> items] ELSE Null,
        unrankedItems |-> Null ]

\* App.tsx builds the list from the URL payload and dispatches it; the
\* reducer gives it one more generated id.
LOAD_SHARED_LIST(n, type) ==
  /\ driver = "reducer"
  /\ nextId + n + 1 <= MaxGen
  /\ Len(lists) < MaxLists
  /\ LET newList == [createListFromPayload(n, type) EXCEPT !.id = nextId + n + 1]
     IN  /\ lists' = Append(lists, newList)
         /\ currentListId' = newList.id
         /\ currentView' = IF newList.status = "ranked"
                           THEN "rankedResult" ELSE "currentList"
  /\ nextId' = nextId + n + 2
  /\ UNCHANGED <<driver, probeVars, engineVars, rankingState>>

\* RankingView: the total it passes to getRankingProgress, and the
\* progress it displays.
totalItemsToRank(rs) == Len(rs.sortedListItemIds) + 1 + Len(rs.pendingItemIds)

RankingViewProgress(rs) == getRankingProgress(rs, totalItemsToRank(rs))

NextReducer ==
  \/ \E view \in {"currentList", "ranking", "rankedResult"} : SET_VIEW(view)
  \/ CREATE_LIST
  \/ \E listId \in ActionListIds : SET_CURRENT_LIST(listId)
  \/ \E listId \in ActionListIds, blank \in BOOLEAN : ADD_ITEM(listId, blank)
  \/ \E listId \in ActionListIds :
       \E itemId \in ActionItemIds(listId) : DELETE_ITEM(listId, itemId)
  \/ \E listId \in ActionListIds, blank \in BOOLEAN : ADD_ITEM_TO_RANKED_LIST(listId, blank)
  \/ \E listId \in ActionListIds :
       \E itemId \in ActionItemIds(listId) : DELETE_UNRANKED_ITEM(listId, itemId)
  \/ \E listId \in ActionListIds : START_RANKING(listId)
  \/ \E listId \in ActionListIds : START_PARTIAL_RANKING(listId)
  \/ \E chooseCandidate \in BOOLEAN : MAKE_COMPARISON(chooseCandidate)
  \/ COMPLETE_RANKING
  \/ \E listId \in ActionListIds : DELETE_LIST(listId)
  \/ \E n \in 0..MaxShared, type \in {"unranked", "ranked"} : LOAD_SHARED_LIST(n, type)

\* ------------------------------------------- direct calls on a built state
\* A call on null throws a TypeError (the functions read properties of
\* their state argument); on a state the functions run without any check.
Threw(call, arg) == [call |-> call, arg |-> arg, threw |-> TRUE]

Returned(call, arg, value) ==
  [call |-> call, arg |-> arg, threw |-> FALSE, value |-> value]

ProbeProcessComparison(chooseCandidate) ==
  /\ driver = "probe"
  /\ probeResult = NoCall
  /\ probeResult' =
       IF probeState = Null
       THEN Threw("processComparison", chooseCandidate)
       ELSE Returned("processComparison", chooseCandidate,
                     processComparison(probeState, chooseCandidate))
  /\ UNCHANGED <<driver, engineVars, appVars, probeState>>

ProbeGetCurrentComparison ==
  /\ driver = "probe"
  /\ probeResult = NoCall
  /\ probeResult' =
       IF probeState = Null
       THEN Threw("getCurrentComparison", 0)
       ELSE Returned("getCurrentComparison", 0, getCurrentComparison(probeState))
  /\ UNCHANGED <<driver, engineVars, appVars, probeState>>

ProbeGetRankingProgress(totalItems) ==
  /\ driver = "probe"
  /\ probeResult = NoCall
  /\ probeResult' =
       IF probeState = Null
       THEN Threw("getRankingProgress", totalItems)
       ELSE Returned("getRankingProgress", totalItems,
                     getRankingProgress(probeState, totalItems))
  /\ UNCHANGED <<driver, engineVars, appVars, probeState>>

NextProbe ==
  \/ \E chooseCandidate \in BOOLEAN : ProbeProcessComparison(chooseCandidate)
  \/ ProbeGetCurrentComparison
  \/ \E totalItems \in 1..MaxTotal : ProbeGetRankingProgress(totalItems)

Next ==
  \/ NextEngine
  \/ NextReducer
  \/ NextProbe

Spec == Init /\ [][Next]_vars

\* The engine driven directly, one session per behaviour.
InitDirect == Init /\ driver = "engine"

SpecEngine == InitDirect /\ [][NextEngine]_vars

\* One engine function called once on a state built by hand.
InitProbed == Init /\ driver = "probe"

SpecProbe == InitProbed /\ [][NextProbe]_vars

\* The caller of the engine keeps going: it initializes the session and
\* answers the comparison of a session that is active (the loops of the
\* engine's tests, the two buttons of the ranking view).
SpecEngineLive == SpecEngine /\ WF_vars(NextEngine)

\* A state saved by an earlier run and loaded by AppProvider: two unranked
\* lists of two items each, the first one current. Their ids (10, 11, 12,
\* 20, 21, 22) were generated in the earlier run and differ from every id
\* generateId returns in this one.
SavedLists ==
  << [ id |-> 10, items |-> <<11, 12>>, status |-> "unranked",
       rankedData |-> Null, unrankedItems |-> Null ],
     [ id |-> 20, items |-> <<21, 22>>, status |-> "unranked",
       rankedData |-> Null, unrankedItems |-> Null ] >>

\* AppProvider starts from the saved state when there is one. The run may
\* generate two more ids.
InitRestored ==
  /\ driver = "reducer"
  /\ InitEngine
  /\ entry = "full"
  /\ argItems = <<>>
  /\ InitProbe
  /\ lists = SavedLists
  /\ currentListId = 10
  /\ rankingState = Null
  /\ currentView = "currentList"
  /\ nextId = MaxGen - 1

\* The actions dispatched after the restart: every action of the reducer
\* except the two that delete an item.
NextRestored ==
  \/ \E view \in {"currentList", "ranking", "rankedResult"} : SET_VIEW(view)
  \/ CREATE_LIST
  \/ \E listId \in ActionListIds : SET_CURRENT_LIST(listId)
  \/ \E listId \in ActionListIds, blank \in BOOLEAN : ADD_ITEM(listId, blank)
  \/ \E listId \in ActionListIds, blank \in BOOLEAN : ADD_ITEM_TO_RANKED_LIST(listId, blank)
  \/ \E listId \in ActionListIds : START_RANKING(listId)
  \/ \E listId \in ActionListIds : START_PARTIAL_RANKING(listId)
  \/ \E chooseCandidate \in BOOLEAN : MAKE_COMPARISON(chooseCandidate)
  \/ COMPLETE_RANKING
  \/ \E listId \in ActionListIds : DELETE_LIST(listId)
  \/ \E n \in 0..MaxShared, type \in {"unranked", "ranked"} : LOAD_SHARED_LIST(n, type)

\* The application restarted on the saved state.
SpecRestored == InitRestored /\ [][NextRestored]_vars

\* ------------------------------------------------------- claim vocabulary
Count(x, s) == Cardinality({i \in 1..Len(s) : s[i] = x})

\* s and t hold the same ids with the same multiplicities.
IsPermutation(s, t) ==
  /\ Len(s) = Len(t)
  /\ \A x \in Range(s) \cup Range(t) : Count(x, s) = Count(x, t)

RECURSIVE IsSubsequence(_, _)
\* s can be obtained from t by deleting elements.
IsSubsequence(s, t) ==
  IF Len(s) = 0 THEN TRUE
  ELSE IF Len(t) = 0 THEN FALSE
  ELSE IF Head(s) = Head(t) THEN IsSubsequence(Tail(s), Tail(t))
  ELSE IsSubsequence(s, Tail(t))

IsIncreasing(s) == \A i, j \in 1..Len(s) : i < j => s[i] < s[j]

\* The ids supplied at initialization, in the order supplied.
Supplied == argExisting \o argItems

\* The supplied ids sorted by the preference order "smaller id preferred".
SuppliedSorted ==
  CHOOSE s \in [1..Len(Supplied) -> Range(Supplied)] :
    IsIncreasing(s) /\ Range(s) = Range(Supplied)

\* Every answer so far followed the preference order "smaller id preferred".
AnswersFollowOrder ==
  \A i \in 1..Len(log) :
    log[i].chooseCandidate = (log[i].candidateId < log[i].referenceId)

Active == driver = "engine" /\ pc = "active"

Complete == driver = "engine" /\ pc = "complete"

FullSession == entry = "full" /\ Len(argItems) >= 2

PartialSession == entry = "partial" /\ Len(argExisting) >= 1 /\ Len(argItems) >= 1

\* The ids a session holds, as one sequence.
Held(st) == st.sortedListItemIds \o st.pendingItemIds \o <<st.currentCandidateId>>

\* ------------------------------------------------------------------ claims
\* C1 (conservation): in every ACTIVE state of a full session on N >= 2
\* distinct ids or of a partial session, |ordered| + |pending| + 1 is the
\* number of supplied ids and ordered, pending and candidate together hold
\* exactly the supplied ids, each once.
C1_Conservation ==
  (Active /\ (FullSession \/ entry = "partial")) =>
    /\ Len(session.sortedListItemIds) + Len(session.pendingItemIds) + 1 = Len(Supplied)
    /\ IsPermutation(Held(session), Supplied)

\* C2 (no duplicates on completion, full ranking): a full session on N >= 2
\* distinct ids that reaches COMPLETE ends with an order of length N that
\* holds each supplied id exactly once.
C2_CompleteFullOrder ==
  (Complete /\ FullSession) =>
    /\ Len(finalOrder) = Len(argItems)
    /\ IsPermutation(finalOrder, argItems)

\* The list currentListId names, in the state after a step.
CurrentListAfter == CHOOSE l \in Range(lists') : l.id = currentListId'

\* C3 (reducer completion): when a MAKE_COMPARISON completes a ranking, the
\* order stored in the current list's rankedData.itemIdsInOrder holds every
\* id the session was ranking (sorted, pending and the last candidate), each
\* exactly once.
C3_StoredOrderComplete ==
  [][\A chooseCandidate \in BOOLEAN :
       ( /\ rankingState # Null
         /\ processComparison(rankingState, chooseCandidate) = Null
         /\ HasList(currentListId)
         /\ MAKE_COMPARISON(chooseCandidate) )
       => LET stored == CurrentListAfter.rankedData.itemIdsInOrder
          IN  /\ Range(stored) = Range(Held(rankingState))
              /\ IsInjective(stored)]_vars

\* C4 (partial-ranking completeness): a partial session on a non-empty
\* duplicate-free existing order and k >= 1 new ids that reaches COMPLETE
\* ends with an order holding every existing and every new id exactly once,
\* and every new id has been the candidate of at least one comparison.
C4_PartialComplete ==
  (Complete /\ PartialSession) =>
    /\ Len(finalOrder) = Len(argExisting) + Len(argItems)
    /\ IsPermutation(finalOrder, Supplied)
    /\ \A x \in Range(argItems) : \E i \in 1..Len(log) : log[i].candidateId = x

\* A step of a session that stays active leaves the sorted list alone or
\* inserts the candidate into it at some index, moving nothing else.
OnlyInsertsCandidate ==
  (driver = "engine" /\ pc = "active" /\ pc' = "active") =>
    \/ session'.sortedListItemIds = session.sortedListItemIds
    \/ \E at \in 0..Len(session.sortedListItemIds) :
         session'.sortedListItemIds =
           Splice(session.sortedListItemIds, at, session.currentCandidateId)

\* The existing order of a partial session is a subsequence of the sorted
\* list while the session is active and of the final order once complete.
ExistingOrderKept ==
  PartialSession =>
    /\ Active => IsSubsequence(argExisting, session.sortedListItemIds)
    /\ Complete => IsSubsequence(argExisting, finalOrder)

\* C5 (existing order preserved): in a partial session the existing order
\* stays a subsequence of ordered in every state and at completion, and no
\* transition changes the relative order of ids already in ordered: it only
\* inserts the candidate.
C5_ExistingOrderPreserved == []ExistingOrderKept /\ [][OnlyInsertsCandidate]_vars

\* C5 witness: a partial session on two or more existing ids that has
\* inserted a new id and is placing the next one.
C5_Witness ==
  /\ Active /\ PartialSession
  /\ Len(argExisting) >= 2
  /\ Len(session.sortedListItemIds) > Len(argExisting)

\* C6 (sorting correctness): when every answer follows one fixed strict
\* total order, a full session on N >= 2 ids, or a partial session whose
\* existing order is sorted by that order, that reaches COMPLETE ends with
\* the supplied ids sorted by that order, most preferred first.
C6_SortsByPreference ==
  ( /\ Complete
    /\ AnswersFollowOrder
    /\ FullSession \/ (PartialSession /\ IsIncreasing(argExisting)) )
  => finalOrder = SuppliedSorted

\* C7 (membership invariants): in every ACTIVE state the candidate is in
\* neither ordered nor pending, pending and ordered share no id, and
\* ordered holds no id twice.
C7_Membership ==
  Active =>
    /\ session.currentCandidateId \notin Range(session.sortedListItemIds)
    /\ session.currentCandidateId \notin Range(session.pendingItemIds)
    /\ Range(session.pendingItemIds) \cap Range(session.sortedListItemIds) = {}
    /\ IsInjective(session.sortedListItemIds)

\* The session is the one an initializer just returned.
JustInitialized == Active /\ log = <<>>

\* C8 (beginFullRanking): for items of length >= 2 the returned session is
\* ordered = [items[0]], candidate = items[1], pending = items[2:],
\* lowBound = 0, highBound = 0, mode = full.
C8_FullInitialSession ==
  (JustInitialized /\ FullSession) =>
    session = [ sortedListItemIds  |-> <<argItems[1]>>,
                pendingItemIds     |-> Slice(argItems, 2),
                currentCandidateId |-> argItems[2],
                low                |-> 0,
                high               |-> 0,
                mode               |-> "full" ]

\* C9 (beginPartialRanking): for a non-empty existing order and non-empty
\* new items the returned session is ordered = existingOrder, candidate =
\* newItems[0], pending = newItems[1:], lowBound = 0, highBound =
\* |existingOrder| - 1, mode = partial.
C9_PartialInitialSession ==
  (driver = "engine" /\ pc # "start" /\ log = <<>> /\ PartialSession) =>
    /\ pc = "active"
    /\ session.sortedListItemIds = argExisting
    /\ session.currentCandidateId = Head(argItems)
    /\ session.pendingItemIds = Tail(argItems)
    /\ session.low = 0
    /\ session.high = Len(argExisting) - 1
    /\ session.mode = "partial"

\* C9 witness: a partial session just initialized on two or more existing
\* ids and two or more new ids.
C9_Witness ==
  /\ JustInitialized /\ PartialSession
  /\ Len(argExisting) >= 2
  /\ Len(argItems) >= 2

\* An initializer called on too few items returns null: no session exists.
InsufficientItemsRefused ==
  ( /\ driver = "engine"
    /\ pc # "start"
    /\ \/ entry = "full" /\ Len(argItems) < 2
       \/ entry = "partial" /\ Len(argItems) = 0 )
  => (pc = "insufficient" /\ session = Null)

\* START_RANKING on a list with fewer than 2 items and START_PARTIAL_RANKING
\* on a list without unranked items return the state they were given.
StartOnTooFewIsNoOp ==
  \A listId \in ListIds :
    /\ (START_RANKING(listId) /\ Len(AllItems(FindList(listId))) < 2)
         => UNCHANGED appVars
    /\ (START_PARTIAL_RANKING(listId) /\ Len(UnrankedOrEmpty(FindList(listId))) = 0)
         => UNCHANGED appVars

\* C10 (insufficient items): beginFullRanking on fewer than 2 items and
\* beginPartialRanking with no new items return null and create no session;
\* START_RANKING on a list with fewer than 2 items (items plus unranked
\* items) and START_PARTIAL_RANKING on a list without unranked items leave
\* the application state untouched.
C10_InsufficientItems == []InsufficientItemsRefused /\ [][StartOnTooFewIsNoOp]_vars

\* C10 witness: beginFullRanking was called on a single item and returned
\* the 'not enough items' signal.
C10_Witness ==
  /\ driver = "engine"
  /\ pc = "insufficient"
  /\ entry = "full"
  /\ Len(argItems) = 1

\* The caller used initializePartialRankingState with an empty existing
\* order and holds what it returned.
PartialOnEmptyReturned ==
  /\ driver = "engine"
  /\ entry = "partial"
  /\ argExisting = <<>>
  /\ pc # "start"
  /\ log = <<>>

\* C11 (delegation): initializePartialRankingState([], newItems) returns
\* exactly what initializeRankingState(newItems) returns: null when newItems
\* has fewer than 2 ids, and otherwise the same full-mode session, with
\* ordered = [newItems[0]], candidate = newItems[1], bounds [0,0] and the
\* pending list initializeRankingState gives.
C11_DelegatesToFull ==
  PartialOnEmptyReturned =>
    IF Len(argItems) < 2
    THEN /\ pc = "insufficient"
         /\ session = Null
         /\ initializeRankingState(argItems) = Null
    ELSE /\ pc = "active"
         /\ session = initializeRankingState(argItems)
         /\ session.sortedListItemIds = <<argItems[1]>>
         /\ session.currentCandidateId = argItems[2]
         /\ session.low = 0
         /\ session.high = 0
         /\ session.mode = "full"

\* C11 witness: initializePartialRankingState([], newItems) has returned a
\* session for three or more new ids.
C11_Witness ==
  /\ PartialOnEmptyReturned
  /\ pc = "active"
  /\ Len(argItems) >= 3

\* A step that answers one comparison of an active session.
AnswersComparison ==
  /\ driver = "engine"
  /\ pc = "active"
  /\ Len(log') = Len(log) + 1

\* The answer given in the step being taken.
LastAnswer == log'[Len(log')].chooseCandidate

\* The narrowing for the answer empties the window of the current candidate.
WindowExhausted(st, chooseCandidate) ==
  NewLow(st, chooseCandidate) > NewHigh(st, chooseCandidate)

\* C12 (terminal result): when a comparison exhausts the window of the
\* current candidate and nothing is pending, processComparison returns a
\* terminal state carrying the previous sorted list with the candidate
\* inserted at index low, an empty pending list and an empty
\* currentCandidateId.
C12_TerminalResult ==
  [][( /\ AnswersComparison
       /\ WindowExhausted(session, LastAnswer)
       /\ Len(session.pendingItemIds) = 0 )
     => /\ session' # Null
        /\ session'.sortedListItemIds =
             Splice(session.sortedListItemIds, NewLow(session, LastAnswer),
                    session.currentCandidateId)
        /\ session'.pendingItemIds = <<>>
        /\ session'.currentCandidateId = 0]_vars

\* C13 (insert and advance): whenever a comparison exhausts the window and
\* pending holds one or more ids, processComparison returns an active
\* session whose sorted list is the previous one with the candidate inserted
\* at index low, whose candidate is the former first pending id, whose
\* pending is the former pending without its first id, and whose bounds are
\* 0 and the new sorted length minus one; the sorted list gains an element
\* at no other transition.
C13_InsertAndAdvance ==
  [][/\ ( /\ AnswersComparison
          /\ WindowExhausted(session, LastAnswer)
          /\ Len(session.pendingItemIds) >= 1 )
        => /\ pc' = "active"
           /\ session' # Null
           /\ session'.sortedListItemIds =
                Splice(session.sortedListItemIds, NewLow(session, LastAnswer),
                       session.currentCandidateId)
           /\ session'.currentCandidateId = Head(session.pendingItemIds)
           /\ session'.pendingItemIds = Tail(session.pendingItemIds)
           /\ session'.low = 0
           /\ session'.high = Len(session.sortedListItemIds)
     /\ ( /\ AnswersComparison
          /\ ~WindowExhausted(session, LastAnswer)
          /\ pc' = "active" )
        => session'.sortedListItemIds = session.sortedListItemIds]_vars

\* floor((lowBound + highBound) / 2) of a session.
FloorMid(st) == (st.low + st.high) \div 2

\* The bounds the narrowing step is to give: a preferred candidate moves
\* the upper bound to mid - 1, a preferred reference moves the lower bound
\* to mid + 1, and the other bound stays.
NarrowedLow(st, chooseCandidate) ==
  IF chooseCandidate THEN st.low ELSE FloorMid(st) + 1

NarrowedHigh(st, chooseCandidate) ==
  IF chooseCandidate THEN FloorMid(st) - 1 ELSE st.high

\* C14 (narrowing step and its frame): with mid = floor((low + high) / 2),
\* 'candidate preferred' sets high = mid - 1 and leaves low, 'reference
\* preferred' sets low = mid + 1 and leaves high; when the narrowed window
\* is still non-empty the returned session has those bounds and the same
\* candidate, sorted list, pending list and mode; when it is empty and the
\* session goes on, the candidate went in at the narrowed low.
C14_NarrowingFrame ==
  [][AnswersComparison =>
       LET lo == NarrowedLow(session, LastAnswer)
           hi == NarrowedHigh(session, LastAnswer)
       IN  /\ lo <= hi =>
                /\ pc' = "active"
                /\ session' = [session EXCEPT !.low = lo, !.high = hi]
           /\ (lo > hi /\ pc' = "active") =>
                session'.sortedListItemIds =
                  Splice(session.sortedListItemIds, lo, session.currentCandidateId)]_vars

\* C14 witness: the last answer preferred the candidate and narrowed its
\* window, from [0,2] or wider, without placing it.
C14_Witness ==
  /\ Active
  /\ log # <<>>
  /\ log[Len(log)].chooseCandidate
  /\ log[Len(log)].candidateId = session.currentCandidateId
  /\ session.low <= session.high
  /\ session.high < Len(session.sortedListItemIds) - 1

\* The ids to be placed, in the order the initializer queues them: items
\* after the first for a full session (also when an empty existing order is
\* delegated), all new items for a partial session.
CandidateQueue ==
  IF entry = "full" \/ argExisting = <<>> THEN Slice(argItems, 1) ELSE argItems

\* The length of the sorted list the initializer returns.
InitialSortedLen == IF entry = "full" \/ argExisting = <<>> THEN 1 ELSE Len(argExisting)

\* The position of an id in the candidate queue, 0 if it is not queued.
QueuePos(x) ==
  IF x \in Range(CandidateQueue)
  THEN CHOOSE i \in 1..Len(CandidateQueue) : CandidateQueue[i] = x
  ELSE 0

\* C15 (FIFO candidate order): the successive candidates of a session are
\* the queued ids in queue order: after k insertions the candidate is the
\* (k+1)-th queued id, the candidates of the answered comparisons never go
\* back in the queue, and a complete session has had every queued id as
\* candidate.
C15_FifoCandidates ==
  (driver = "engine" /\ pc \in {"active", "complete"}) =>
    /\ Active =>
         LET k == Len(session.sortedListItemIds) - InitialSortedLen
         IN  /\ k + 1 <= Len(CandidateQueue)
             /\ session.currentCandidateId = CandidateQueue[k + 1]
    /\ \A i, j \in 1..Len(log) :
         i < j => /\ QueuePos(log[i].candidateId) >= 1
                  /\ QueuePos(log[i].candidateId) <= QueuePos(log[j].candidateId)
    /\ Complete =>
         \A x \in Range(CandidateQueue) : \E i \in 1..Len(log) : log[i].candidateId = x

\* The window of an active session lies inside the sorted list, and its
\* midpoint indexes the sorted list while the window is non-empty.
BoundsInside ==
  Active =>
    /\ 0 <= session.low
    /\ session.high <= Len(session.sortedListItemIds) - 1
    /\ session.low <= session.high =>
         FloorMid(session) \in 0..(Len(session.sortedListItemIds) - 1)

\* The candidate an initializer selects starts with the whole sorted list
\* as its window.
InitialWindowWhole ==
  JustInitialized =>
    /\ session.low = 0
    /\ session.high = Len(session.sortedListItemIds) - 1

\* The candidate selected after an insertion starts with the whole (grown)
\* sorted list as its window.
NextWindowWhole ==
  ( /\ AnswersComparison
    /\ pc' = "active"
    /\ Len(session'.sortedListItemIds) > Len(session.sortedListItemIds) )
  => /\ session'.low = 0
     /\ session'.high = Len(session'.sortedListItemIds) - 1

\* C16 (bounds invariant): in every ACTIVE state 0 <= low and high <=
\* |ordered| - 1; every newly selected candidate starts with low = 0 and
\* high = |ordered| - 1; and whenever low <= high, floor((low + high) / 2)
\* is a valid index into ordered.
C16_BoundsInvariant ==
  [](BoundsInside /\ InitialWindowWhole) /\ [][NextWindowWhole]_vars

\* C16 witness: after an insertion into a list of three or more ids, a
\* newly selected candidate has the whole sorted list as its window.
C16_Witness ==
  /\ Active
  /\ log # <<>>
  /\ Len(session.sortedListItemIds) > InitialSortedLen
  /\ Len(session.sortedListItemIds) >= 4
  /\ session.low = 0
  /\ session.high = Len(session.sortedListItemIds) - 1

\* The step returns a session with the same candidate and a strictly
\* smaller window inside the previous one.
StrictlyNarrows ==
  /\ pc' = "active"
  /\ session'.currentCandidateId = session.currentCandidateId
  /\ session'.low >= session.low
  /\ session'.high <= session.high
  /\ session'.high - session'.low < session.high - session.low

\* The step ends the placement of the candidate: the candidate is inserted
\* and the session completes or goes on with another candidate.
EndsPlacement ==
  \/ pc' = "complete"
  \/ /\ pc' = "active"
     /\ session'.currentCandidateId # session.currentCandidateId
     /\ \E at \in 0..Len(session.sortedListItemIds) :
          session'.sortedListItemIds =
            Splice(session.sortedListItemIds, at, session.currentCandidateId)

\* The window does not widen over a step that keeps the candidate.
NeverWidens ==
  (pc' = "active" /\ session'.currentCandidateId = session.currentCandidateId)
  => /\ session'.low >= session.low
     /\ session'.high <= session.high

\* C17 (monotonic narrowing): every processComparison on an active session
\* either returns a session with the same candidate whose window lies
\* inside the previous one and is strictly smaller, or ends the placement
\* of that candidate by inserting it; the window never widens while the
\* candidate stays the same.
C17_MonotonicNarrowing ==
  [][AnswersComparison =>
       /\ StrictlyNarrows \/ EndsPlacement
       /\ NeverWidens]_vars

\* The first index of x in s, for x in s.
Pos(x, s) == CHOOSE i \in 1..Len(s) : s[i] = x /\ \A j \in 1..(i - 1) : s[j] # x

\* x and y are both in s and x comes first.
Precedes(x, y, s) ==
  /\ x \in Range(s)
  /\ y \in Range(s)
  /\ Pos(x, s) < Pos(y, s)

\* The order s agrees with the answered comparison e.
Reflects(e, s) ==
  IF e.chooseCandidate
  THEN Precedes(e.candidateId, e.referenceId, s)
  ELSE Precedes(e.referenceId, e.candidateId, s)

\* C18 (the order reflects every decision): for every answered comparison
\* between a candidate c and a reference r, once c has been inserted, c
\* precedes r in ordered if the candidate was preferred and r precedes c
\* otherwise, in every later state and in the final order.
C18_OrderReflectsDecisions ==
  /\ Active =>
       \A i \in 1..Len(log) :
         log[i].candidateId # session.currentCandidateId
           => Reflects(log[i], session.sortedListItemIds)
  /\ Complete => \A i \in 1..Len(log) : Reflects(log[i], finalOrder)

\* Every call on an active session completes it, takes an id off the
\* pending list, or keeps the pending list and shrinks the window.
CallMakesProgress ==
  AnswersComparison =>
    \/ pc' = "complete"
    \/ Len(session'.pendingItemIds) < Len(session.pendingItemIds)
    \/ /\ Len(session'.pendingItemIds) = Len(session.pendingItemIds)
       /\ session'.high - session'.low < session.high - session.low

\* The number of calls made on a session of 4 supplied ids stays below 30,
\* and on a session of 5 supplied ids below 50.
CallsBounded ==
  (driver = "engine" /\ pc \in {"active", "complete"}) =>
    /\ Len(Supplied) = 4 => Len(log) < 30
    /\ Len(Supplied) = 5 => Len(log) < 50

\* C19 (termination): every session started by an initializer reaches
\* COMPLETE after finitely many processComparison calls, whatever the
\* answers: an active session leads to a complete one, every call makes
\* progress, a 4-item session takes fewer than 30 calls and a 5-item
\* session fewer than 50.
C19_Termination ==
  /\ Active ~> Complete
  /\ []CallsBounded
  /\ [][CallMakesProgress]_vars

\* C19 witness: a session on 5 supplied ids has completed after three or
\* more calls.
C19_Witness ==
  /\ Complete
  /\ Len(Supplied) = 5
  /\ Len(log) >= 3

\* The answers given so far, in order.
Answers == [i \in 1..Len(log) |-> log[i].chooseCandidate]

\* C20 (scenario A and B, with a = 1, b = 2, c = 3):
\* initializeRankingState([a,b,c]) gives ordered = [a], candidate = b,
\* pending = [c], bounds [0,0]; 'prefer candidate' gives ordered = [b,a],
\* candidate = c, bounds [0,1]; 'prefer reference' then gives low = 1,
\* high = 1 with the same candidate; 'prefer candidate' then completes the
\* session with final order [b,c,a].
C20_ScenarioAB ==
  (driver = "engine" /\ entry = "full" /\ argItems = <<1, 2, 3>> /\ pc # "start") =>
    /\ Answers = <<>> =>
         /\ pc = "active"
         /\ session.sortedListItemIds = <<1>>
         /\ session.currentCandidateId = 2
         /\ session.pendingItemIds = <<3>>
         /\ session.low = 0
         /\ session.high = 0
    /\ Answers = <<TRUE>> =>
         /\ pc = "active"
         /\ session.sortedListItemIds = <<2, 1>>
         /\ session.currentCandidateId = 3
         /\ session.low = 0
         /\ session.high = 1
    /\ Answers = <<TRUE, FALSE>> =>
         /\ pc = "active"
         /\ session.currentCandidateId = 3
         /\ session.low = 1
         /\ session.high = 1
    /\ Answers = <<TRUE, FALSE, TRUE>> =>
         /\ pc = "complete"
         /\ finalOrder = <<2, 3, 1>>

\* The pair (candidate, ordered[mid]) of a session, mid taken from its
\* current bounds.
PairAtMid(st) ==
  [ candidateId |-> st.currentCandidateId,
    referenceId |-> st.sortedListItemIds[FloorMid(st) + 1] ]

\* getCurrentComparison gives the pair at mid for the active session.
PairIsAtMid ==
  Active =>
    /\ FloorMid(session) + 1 \in 1..Len(session.sortedListItemIds)
    /\ getCurrentComparison(session) = PairAtMid(session)

\* The pair the caller answered in a step is the pair at mid of the session
\* it held before the step.
AnsweredPairIsAtMid ==
  AnswersComparison =>
    /\ log'[Len(log')].candidateId = PairAtMid(session).candidateId
    /\ log'[Len(log')].referenceId = PairAtMid(session).referenceId

\* C21 (current comparison pair): for every ACTIVE session
\* getCurrentComparison returns (candidate, ordered[mid]) with
\* mid = floor((low + high) / 2) computed from the session's current bounds,
\* so the pair returned after a transition is the one for the new bounds.
C21_CurrentPair == []PairIsAtMid /\ [][AnsweredPairIsAtMid]_vars

\* C21 witness: after a transition, the active session has a window of
\* three or more positions, whose midpoint is not its low end.
C21_Witness ==
  /\ Active
  /\ log # <<>>
  /\ FloorMid(session) > session.low
  /\ session.high > FloorMid(session)

\* getRankingProgress was called on a state and returned.
ProgressReturned ==
  /\ driver = "probe"
  /\ probeResult.call = "getRankingProgress"
  /\ ~probeResult.threw

Abs(x) == IF x < 0 THEN -x ELSE x

\* r is an integer nearest to num / den.
IsNearest(r, num, den) == 2 * Abs(r * den - num) <= den

\* C22 (progress): getRankingProgress(state, totalItems) returns
\* currentItemIndex = |ordered| + 1, percentComplete = that count divided
\* by totalItems times 100, rounded to the nearest integer (3 of 5 gives
\* 60, 6 of 6 gives 100), and totalItems unchanged.
C22_Progress ==
  ProgressReturned =>
    LET processedCount == Len(probeState.sortedListItemIds) + 1
        totalItemCount == probeResult.arg
        progress       == probeResult.value
    IN  /\ progress.currentItemIndex = processedCount
        /\ progress.totalItems = totalItemCount
        /\ IsNearest(progress.percentComplete, processedCount * 100, totalItemCount)
        /\ (processedCount = 3 /\ totalItemCount = 5) => progress.percentComplete = 60
        /\ (processedCount = 6 /\ totalItemCount = 6) => progress.percentComplete = 100

\* C22 witness: getRankingProgress on a state with two sorted ids and a
\* total of 5 returned 60 percent.
C22_Witness ==
  /\ ProgressReturned
  /\ Len(probeState.sortedListItemIds) = 2
  /\ probeResult.arg = 5
  /\ probeResult.value.percentComplete = 60

\* The state handed to the direct call is not an active session: there is
\* no session (it has completed), or its window is already empty.
ProbeNotActive ==
  \/ probeState = Null
  \/ probeState.low > probeState.high

\* C23 (invalid transitions fail loudly): processComparison and
\* getCurrentComparison invoked on a session that is not ACTIVE (its window
\* already empty, or completed) are rejected with an error; they never
\* return a session or a pair, nor insert the candidate silently.
C23_InvalidCallsRejected ==
  ( /\ driver = "probe"
    /\ probeResult.call \in {"processComparison", "getCurrentComparison"}
    /\ ProbeNotActive )
  => probeResult.threw

RECURSIVE ReplaySession(_, _)
\* The session a fresh run holds after initializeRankingState(items) and
\* the given answers, applied in order; Null once the run has completed.
ReplaySession(items, answers) ==
  IF answers = <<>>
  THEN initializeRankingState(items)
  ELSE LET before == ReplaySession(items, SubSeq(answers, 1, Len(answers) - 1))
       IN  IF before = Null
           THEN Null
           ELSE processComparison(before, answers[Len(answers)])

C25_RankingHasSession ==
  (driver = "reducer" /\ \E i \in 1..Len(lists) : lists[i].status = "ranking")
  => rankingState # Null

\* A list that is being ranked before and after a step holds the same item
\* ids after the step as before.
ItemsFrozenWhileRanking ==
  driver = "reducer" =>
    \A i \in 1..Len(lists) : \A j \in 1..Len(lists') :
      ( /\ lists'[j].id = lists[i].id
        /\ lists[i].status = "ranking"
        /\ lists'[j].status = "ranking" )
      => Range(lists'[j].items) = Range(lists[i].items)

\* C26 (item set frozen while ranking): while a list has status 'ranking'
\* the membership of its items does not change; ADD_ITEM and DELETE_ITEM
\* addressed to that list do not alter its items until the ranking
\* completes or is exited.
C26_ItemsFrozen == [][ItemsFrozenWhileRanking]_vars

\* C27 (the comparison shown is well defined): in every ACTIVE session
\* reachable from an initializer, low <= high, the reference ordered[mid]
\* exists, and the reference is never the candidate itself.
C27_ComparisonWellDefined ==
  Active =>
    /\ session.low <= session.high
    /\ FloorMid(session) + 1 \in 1..Len(session.sortedListItemIds)
    /\ getCurrentComparison(session).referenceId # 0
    /\ getCurrentComparison(session).referenceId
         # getCurrentComparison(session).candidateId

\* C28 (ranked lists are consistent): every list with status 'ranked' has
\* rankedData defined, and rankedData.itemIdsInOrder is a permutation of
\* the ids of the list's items.
C28_RankedListsConsistent ==
  driver = "reducer" =>
    \A i \in 1..Len(lists) :
      lists[i].status = "ranked" =>
        /\ lists[i].rankedData # Null
        /\ IsPermutation(lists[i].rankedData.itemIdsInOrder, lists[i].items)

\* C29 (the session belongs to the current list): whenever rankingState is
\* not null, the list currentListId names has status 'ranking' and every
\* id held in rankingState (sorted, pending, candidate) is the id of an
\* item of that list.
C29_SessionOnCurrentList ==
  (driver = "reducer" /\ rankingState # Null) =>
    /\ HasList(currentListId)
    /\ FindList(currentListId).status = "ranking"
    /\ Range(Held(rankingState)) \subseteq Range(FindList(currentListId).items)

\* The list with the given id, in the state after a step.
ListAfter(listId) == CHOOSE l \in Range(lists') : l.id = listId

\* A START_RANKING or START_PARTIAL_RANKING that starts a session: the
\* total RankingView displays is the number of items of the list ranked.
StartsWithListTotal ==
  \A listId \in ListIds :
    ( /\ driver = "reducer"
      /\ START_RANKING(listId) \/ START_PARTIAL_RANKING(listId)
      /\ rankingState' # Null
      /\ rankingState' # rankingState )
    => totalItemsToRank(rankingState') = Len(ListAfter(listId).items)

\* A MAKE_COMPARISON that keeps the session going keeps the total.
TotalStaysFixed ==
  ( /\ driver = "reducer"
    /\ rankingState # Null
    /\ rankingState' # Null
    /\ \E chooseCandidate \in BOOLEAN : MAKE_COMPARISON(chooseCandidate) )
  => totalItemsToRank(rankingState') = totalItemsToRank(rankingState)

\* The displayed index does not exceed the displayed total, nor the
\* percentage 100.
DisplayWithinTotal ==
  (driver = "reducer" /\ rankingState # Null) =>
    /\ RankingViewProgress(rankingState).currentItemIndex
         <= RankingViewProgress(rankingState).totalItems
    /\ RankingViewProgress(rankingState).percentComplete <= 100

\* C30 (fixed displayed total): throughout a ranking started by
\* START_RANKING or START_PARTIAL_RANKING the total RankingView passes to
\* getRankingProgress (|sorted| + 1 + |pending|) is the same in every state
\* of the session and equals the number of items of the list being ranked,
\* so the displayed currentItemIndex never exceeds the total and
\* percentComplete never exceeds 100.
C30_FixedDisplayedTotal ==
  /\ []DisplayWithinTotal
  /\ [][StartsWithListTotal /\ TotalStaysFixed]_vars

\* MAKE_COMPARISON dispatched while no session exists returns the state it
\* was given.
ComparisonWithoutSessionIsNoOp ==
  \A chooseCandidate \in BOOLEAN :
    (MAKE_COMPARISON(chooseCandidate) /\ rankingState = Null)
    => UNCHANGED appVars

\* A comparison that does not end the session replaces rankingState by what
\* processComparison returns and nothing else.
ContinuingComparisonChangesSessionOnly ==
  \A chooseCandidate \in BOOLEAN :
    ( /\ MAKE_COMPARISON(chooseCandidate)
      /\ rankingState # Null
      /\ processComparison(rankingState, chooseCandidate) # Null )
    => /\ rankingState' = processComparison(rankingState, chooseCandidate)
       /\ UNCHANGED <<lists, currentListId, currentView, nextId>>

\* A comparison that ends the session: the current list exists and becomes
\* 'ranked' with rankedData and without unrankedItems, its items stay, the
\* other lists stay, the session is dropped and the result is shown.
CompletingComparisonRanksCurrentList ==
  \A chooseCandidate \in BOOLEAN :
    ( /\ MAKE_COMPARISON(chooseCandidate)
      /\ rankingState # Null
      /\ processComparison(rankingState, chooseCandidate) = Null )
    => /\ rankingState' = Null
       /\ currentView' = "rankedResult"
       /\ UNCHANGED <<currentListId, nextId>>
       /\ HasList(currentListId)
       /\ Len(lists') = Len(lists)
       /\ \A i \in 1..Len(lists) :
            IF lists[i].id = currentListId
            THEN /\ lists'[i].id = lists[i].id
                 /\ lists'[i].items = lists[i].items
                 /\ lists'[i].status = "ranked"
                 /\ lists'[i].rankedData # Null
                 /\ lists'[i].unrankedItems = Null
            ELSE lists'[i] = lists[i]

FullExitRevertsList ==
  ( /\ COMPLETE_RANKING
    /\ rankingState # Null
    /\ rankingState.mode = "full" )
  => /\ HasList(currentListId)
     /\ ListAfter(currentListId).status = "unranked"
     /\ ListAfter(currentListId).items = FindList(currentListId).items
     /\ rankingState' = Null
     /\ currentView' = "currentList"

\* COMPLETE_RANKING out of a partial-mode session: the current list is
\* 'ranked' afterwards, its rankedData is the order the session held, the
\* candidate and the pending ids are gone from its items, which are then
\* the ids of rankedData; unrankedItems is cleared, the session is dropped
\* and the result is shown.
PartialExitKeepsProgress ==
  ( /\ COMPLETE_RANKING
    /\ rankingState # Null
    /\ rankingState.mode = "partial" )
  => /\ HasList(currentListId)
     /\ ListAfter(currentListId).status = "ranked"
     /\ ListAfter(currentListId).rankedData
          = [itemIdsInOrder |-> rankingState.sortedListItemIds]
     /\ ListAfter(currentListId).items
          = Without(FindList(currentListId).items,
                    Range(rankingState.pendingItemIds)
                      \cup {rankingState.currentCandidateId})
     /\ Range(ListAfter(currentListId).items)
          = Range(rankingState.sortedListItemIds)
     /\ ListAfter(currentListId).unrankedItems = Null
     /\ rankingState' = Null
     /\ currentView' = "rankedResult"

\* C32 (reducer COMPLETE_RANKING, manual exit): out of a full-mode session
\* the current list goes back to 'unranked' with its items unchanged,
\* rankingState becomes null and the view 'currentList'; out of a
\* partial-mode session the current list becomes 'ranked' with
\* rankedData.itemIdsInOrder equal to the session's ordered sequence, the
\* candidate and all pending ids are removed from its items (so the items'
\* ids equal the ids in rankedData), unrankedItems is cleared, rankingState
\* becomes null and the view 'rankedResult'.
C32_CompleteRanking ==
  [][FullExitRevertsList /\ PartialExitKeepsProgress]_vars

\* The session the initializer of the run returns.
InitialSession ==
  IF entry = "full"
  THEN initializeRankingState(argItems)
  ELSE initializePartialRankingState(argExisting, argItems)

RECURSIVE SearchTrace(_, _)
\* The answers applied in order to a session: the session reached (st),
\* for every candidate placed the length m of the ordered sequence its
\* search started against and the comparisons it took (placed), and the
\* comparisons made so far for the candidate being placed (n).
SearchTrace(init, answers) ==
  IF answers = <<>>
  THEN [st |-> init, placed |-> <<>>, n |-> 0]
  ELSE LET prev == SearchTrace(init, SubSeq(answers, 1, Len(answers) - 1))
           a    == answers[Len(answers)]
       IN  IF prev.st = Null
           THEN prev
           ELSE IF WindowExhausted(prev.st, a)
           THEN [ st     |-> processComparison(prev.st, a),
                  placed |-> Append(prev.placed,
                               [ m           |-> Len(prev.st.sortedListItemIds),
                                 comparisons |-> prev.n + 1 ]),
                  n      |-> 0 ]
           ELSE [ st     |-> processComparison(prev.st, a),
                  placed |-> prev.placed,
                  n      |-> prev.n + 1 ]

\* floor(log2(m)) for m >= 1.
FloorLog2(m) == CHOOSE k \in 0..m : 2^k <= m /\ m < 2^(k + 1)

\* The most comparisons a binary search over m elements takes.
MaxComparisons(m) == FloorLog2(m) + 1

RECURSIVE BinaryInsertionBound(_)
\* The sum over m = 1..N-1 of floor(log2(m)) + 1.
BinaryInsertionBound(N) ==
  IF N <= 1 THEN 0 ELSE BinaryInsertionBound(N - 1) + MaxComparisons(N - 1)

\* The comparisons of a full pairwise matrix on N items.
PairwiseMatrix(N) == (N * (N - 1)) \div 2

\* C33 (comparison count): a candidate whose search starts against an
\* ordered sequence of length m is placed after at least 1 and at most
\* floor(log2(m)) + 1 comparisons, so a full session on N items needs at
\* most the sum over m = 1..N-1 of floor(log2(m)) + 1 comparisons, fewer
\* than the N*(N-1)/2 of a full pairwise matrix for N >= 4.
C33_ComparisonCount ==
  []( (Active \/ Complete) =>
        LET t == SearchTrace(InitialSession, Answers)
        IN  /\ t.st = session
            /\ \A i \in 1..Len(t.placed) :
                 /\ t.placed[i].comparisons >= 1
                 /\ t.placed[i].comparisons <= MaxComparisons(t.placed[i].m)
            /\ Active => t.n + 1 <= MaxComparisons(Len(session.sortedListItemIds))
            /\ FullSession =>
                 /\ Len(log) <= BinaryInsertionBound(Len(argItems))
                 /\ Len(argItems) >= 4 =>
                      BinaryInsertionBound(Len(argItems))
                        < PairwiseMatrix(Len(argItems)) )

\* C33 witness: a full session on five ids has completed after the most
\* comparisons the bound allows, one placement against four elements
\* having taken three.
C33_Witness ==
  /\ Complete
  /\ FullSession
  /\ Len(argItems) = 5
  /\ Len(log) = BinaryInsertionBound(5)
  /\ Len(log) = 8
  /\ \E i \in 1..Len(SearchTrace(InitialSession, Answers).placed) :
       /\ SearchTrace(InitialSession, Answers).placed[i].m = 4
       /\ SearchTrace(InitialSession, Answers).placed[i].comparisons = 3

\* C34 (item ids stay unique): after any sequence of reducer actions, with
\* generateId producing fresh ids, no list's items holds the same id
\* twice; in particular START_PARTIAL_RANKING, abandoning the session and
\* START_RANKING does not add an unranked item to items a second time.
C34_ItemIdsUnique ==
  driver = "reducer" =>
    \A i \in 1..Len(lists) : IsInjective(lists[i].items)

\* The lists that are being ranked.
RankingLists == {i \in 1..Len(lists) : lists[i].status = "ranking"}

\* A start dispatched for one list while another list is being ranked
\* returns the state it was given.
NoStartWhileOtherRanking ==
  \A listId \in ListIds :
    ( /\ START_RANKING(listId) \/ START_PARTIAL_RANKING(listId)
      /\ \E i \in RankingLists : lists[i].id # listId )
    => UNCHANGED appVars

\* C35 (one session at a time): after any sequence of reducer actions at
\* most one list has status 'ranking'; starting a ranking on one list while
\* another list is still in status 'ranking' is not possible.
C35_OneSessionAtATime ==
  /\ [](driver = "reducer" => Cardinality(RankingLists) <= 1)
  /\ [][NoStartWhileOtherRanking]_vars

\* START_RANKING on a list that holds two or more items, unranked ones
\* counted: the list's items are followed by its unranked items, nothing
\* is left unranked or ranked, the list is being ranked, the session is
\* the full-mode session of those items and the ranking view is shown.
StartRankingStartsFullSession ==
  \A listId \in ListIds :
    ( /\ START_RANKING(listId)
      /\ Len(FindList(listId).items)
           + Len(UnrankedOrEmpty(FindList(listId))) >= 2 )
    => /\ ListAfter(listId).items
            = FindList(listId).items \o UnrankedOrEmpty(FindList(listId))
       /\ ListAfter(listId).unrankedItems = Null
       /\ ListAfter(listId).rankedData = Null
       /\ ListAfter(listId).status = "ranking"
       /\ rankingState' = initializeRankingState(ListAfter(listId).items)
       /\ rankingState' # Null
       /\ rankingState'.mode = "full"
       /\ currentView' = "ranking"

\* START_RANKING naming no list returns the state it was given.
StartRankingOnUnknownListIsNoOp ==
  (START_RANKING(0) /\ ~HasList(0)) => UNCHANGED appVars

\* C36 (reducer START_RANKING): on a list whose items plus unrankedItems
\* number at least 2, the list's items become its items followed by its
\* unrankedItems, unrankedItems and any previous rankedData are cleared,
\* the status becomes 'ranking', rankingState becomes the full-mode session
\* initializeRankingState returns for those items and currentView becomes
\* 'ranking'; an unknown listId leaves the state unchanged.
C36_StartRanking ==
  [][StartRankingStartsFullSession /\ StartRankingOnUnknownListIsNoOp]_vars

\* C36 witness: a full session has just been started on the current list
\* with three or more items, and the list carries neither rankedData nor
\* unrankedItems.
C36_Witness ==
  /\ driver = "reducer"
  /\ rankingState # Null
  /\ currentView = "ranking"
  /\ HasList(currentListId)
  /\ FindList(currentListId).status = "ranking"
  /\ Len(FindList(currentListId).items) >= 3
  /\ FindList(currentListId).rankedData = Null
  /\ FindList(currentListId).unrankedItems = Null
  /\ rankingState = initializeRankingState(FindList(currentListId).items)

\* The list has rankedData and at least one unranked item.
HasRankedAndUnranked(listId) ==
  /\ HasList(listId)
  /\ FindList(listId).rankedData # Null
  /\ Len(UnrankedOrEmpty(FindList(listId))) >= 1

\* The state after a step holds a partial session for the list: sorted is
\* the list's ranked order, the candidate followed by the pending ids are
\* its unranked items, the list is being ranked with the unranked items
\* appended to its items, and the ranking view is shown.
PartialSessionStarted(listId) ==
  LET list     == FindList(listId)
      existing == list.rankedData.itemIdsInOrder
      newItems == UnrankedOrEmpty(list)
  IN  /\ rankingState' # Null
      /\ rankingState' = initializePartialRankingState(existing, newItems)
      /\ rankingState'.sortedListItemIds = existing
      /\ <<rankingState'.currentCandidateId>> \o rankingState'.pendingItemIds
           = newItems
      /\ rankingState'.mode = "partial"
      /\ ListAfter(listId).status = "ranking"
      /\ ListAfter(listId).items = list.items \o newItems
      /\ currentView' = "ranking"

\* The session START_PARTIAL_RANKING computes for the list is a partial
\* session: sorted is the list's ranked order and the candidate followed by
\* the pending ids are its unranked items.
PartialSessionComputed(listId) ==
  LET existing == FindList(listId).rankedData.itemIdsInOrder
      newItems == UnrankedOrEmpty(FindList(listId))
      rs       == initializePartialRankingState(existing, newItems)
  IN  /\ rs # Null
      /\ rs.sortedListItemIds = existing
      /\ <<rs.currentCandidateId>> \o rs.pendingItemIds = newItems
      /\ rs.mode = "partial"

\* Every list with rankedData and unranked items gets a partial session.
RankedListsStartPartial ==
  driver = "reducer" =>
    \A listId \in ListIds :
      HasRankedAndUnranked(listId) => PartialSessionComputed(listId)

\* The same, for a ranked order that holds at least one id.
NonEmptyOrdersStartPartial ==
  driver = "reducer" =>
    \A listId \in ListIds :
      ( /\ HasRankedAndUnranked(listId)
        /\ Len(FindList(listId).rankedData.itemIdsInOrder) >= 1 )
      => PartialSessionComputed(listId)

\* A START_PARTIAL_RANKING that changes the state of a list with rankedData
\* and unranked items starts a partial session on it.
PartialStartOnRankedList ==
  \A listId \in ListIds :
    (START_PARTIAL_RANKING(listId) /\ HasRankedAndUnranked(listId))
    => PartialSessionStarted(listId)

\* The same, for a ranked order that holds at least one id.
PartialStartOnNonEmptyOrder ==
  \A listId \in ListIds :
    ( /\ START_PARTIAL_RANKING(listId)
      /\ HasRankedAndUnranked(listId)
      /\ Len(FindList(listId).rankedData.itemIdsInOrder) >= 1 )
    => PartialSessionStarted(listId)

\* START_PARTIAL_RANKING on a list without rankedData or without unranked
\* items, or naming no list, returns the state it was given.
PartialStartWithoutInputIsNoOp ==
  \A listId \in ActionListIds :
    (START_PARTIAL_RANKING(listId) /\ ~HasRankedAndUnranked(listId))
    => UNCHANGED appVars

\* START_PARTIAL_RANKING on an empty ranked order with a single unranked
\* item returns the state it was given.
PartialStartOnEmptyOrderIsNoOp ==
  \A listId \in ListIds :
    ( /\ START_PARTIAL_RANKING(listId)
      /\ HasRankedAndUnranked(listId)
      /\ Len(FindList(listId).rankedData.itemIdsInOrder) = 0
      /\ Len(UnrankedOrEmpty(FindList(listId))) = 1 )
    => UNCHANGED appVars

\* C37 (reducer START_PARTIAL_RANKING), as stated: on a list that has
\* rankedData and at least one unranked item, rankingState becomes the
\* session initializePartialRankingState(rankedData.itemIdsInOrder,
\* unrankedItems) returns, with sorted equal to the existing ranked order
\* and only the new items as candidate and pending, mode 'partial'; the
\* status becomes 'ranking', the unranked items are appended to the list's
\* items and currentView becomes 'ranking'; without rankedData or without
\* unranked items the state is returned unchanged.
C37_StartPartialRanking ==
  /\ []RankedListsStartPartial
  /\ [][PartialStartOnRankedList /\ PartialStartWithoutInputIsNoOp]_vars

\* C37, amended: the above holds on a list whose ranked order holds at
\* least one id; on an empty ranked order with a single unranked item the
\* state is returned unchanged, as it is without rankedData or without
\* unranked items.
C37_StartPartialRankingOnNonEmptyOrder ==
  /\ []NonEmptyOrdersStartPartial
  /\ [][ /\ PartialStartOnNonEmptyOrder
         /\ PartialStartWithoutInputIsNoOp
         /\ PartialStartOnEmptyOrderIsNoOp ]_vars

\* C37 witness: a partial session has just been started on the current
\* list: it holds the list's ranked order, its candidate is an unranked
\* item of the list that is now among the list's items.
C37_Witness ==
  /\ driver = "reducer"
  /\ rankingState # Null
  /\ rankingState.mode = "partial"
  /\ rankingState.low = 0
  /\ currentView = "ranking"
  /\ HasList(currentListId)
  /\ FindList(currentListId).status = "ranking"
  /\ FindList(currentListId).rankedData # Null
  /\ rankingState.sortedListItemIds
       = FindList(currentListId).rankedData.itemIdsInOrder
  /\ Len(rankingState.sortedListItemIds) >= 1
  /\ UnrankedOrEmpty(FindList(currentListId))
       = <<rankingState.currentCandidateId>> \o rankingState.pendingItemIds
  /\ rankingState.currentCandidateId \in Range(FindList(currentListId).items)

\* There is a list, and currentListId names one.
CurrentListExists ==
  driver = "reducer" =>
    /\ Len(lists) >= 1
    /\ \E i \in 1..Len(lists) : lists[i].id = currentListId

\* The lists other than the one with the given id, in order.
Remaining(listId) == SelectSeq(lists, LAMBDA l : l.id # listId)

\* DELETE_LIST: the session is dropped; deleting the only list leaves one
\* fresh, empty, unranked list that is current; otherwise the other lists
\* remain and the first of them becomes current if the current list was
\* deleted.
DeleteListKeepsAList ==
  \A listId \in ActionListIds :
    DELETE_LIST(listId) =>
      /\ rankingState' = Null
      /\ \E i \in 1..Len(lists') : lists'[i].id = currentListId'
      /\ IF Remaining(listId) = <<>>
         THEN /\ Len(lists') = 1
              /\ lists'[1].id \notin ListIds
              /\ lists'[1].items = <<>>
              /\ lists'[1].status = "unranked"
              /\ lists'[1].rankedData = Null
              /\ lists'[1].unrankedItems = Null
              /\ currentListId' = lists'[1].id
         ELSE /\ lists' = Remaining(listId)
              /\ currentListId' = IF currentListId = listId
                                  THEN Remaining(listId)[1].id
                                  ELSE currentListId

\* C38 (reducer DELETE_LIST): starting from a state with at least one
\* list, after any sequence of actions the lists are never empty (deleting
\* the only list replaces it by a fresh empty 'unranked' list that becomes
\* current); after DELETE_LIST currentListId is the id of an existing list
\* (the first remaining list if the deleted list was current, otherwise
\* unchanged) and rankingState is null.
C38_DeleteList ==
  /\ []CurrentListExists
  /\ [][DeleteListKeepsAList]_vars

\* C38 witness: deletions have left a single fresh, empty, unranked list,
\* the last one generated, which is current; the initial list is gone and
\* no session exists.
C38_Witness ==
  /\ driver = "reducer"
  /\ Len(lists) = 1
  /\ lists[1].id # 1
  /\ lists[1] = NewList(currentListId)
  /\ currentListId = MaxGen
  /\ nextId = MaxGen + 1
  /\ rankingState = Null

====
